---- MODULE Spec2Model ----
(***************************************************************************)
(* Model of the land-use compatibility engine (src/src/analysis_engine.py) *)
(* and of the window that runs it (src/src/gui.py).                        *)
(*                                                                         *)
(* One run of run_analysis is a linear pipeline: prepare the paths, load   *)
(* the parcels, check the land-use column, re-project geographic           *)
(* coordinates, load the matrix, find adjacent pairs (buffer + spatial     *)
(* join), score the pairs against the matrix and reduce them with min,     *)
(* finalize compat_score, write the GeoPackage, write the two reports.     *)
(*                                                                         *)
(* Geometry is modelled in one dimension: a parcel is a closed interval    *)
(* [lo, hi] on an integer line (a rectangle of height 1 whose sides are    *)
(* parallel to the axes).  buffer(d) widens the interval by d on both ends *)
(* and "intersects" is overlap of closed intervals.  A file in geographic  *)
(* coordinates holds degrees; re-projection turns them into metres.        *)
(*                                                                         *)
(* Tables are sets of rows: the number of times a row occurs plays no part *)
(* in min.  Matrix cells and scores are integers; a blank cell and the NaN *)
(* left by a left merge or by min over an all-NaN group are the value NaN. *)
(* The matrix is a table over a set of class labels that need not hold     *)
(* every class of the parcels.  A write of an output file either succeeds  *)
(* or raises (target not writable); nothing catches the exception.         *)
(***************************************************************************)
EXTENDS Integers, Sequences, FiniteSets, Bags, TLC

\* ---------------------------------------------------------------- bounds
MaxParcels == 3
MaxDist == 1

\* Worker threads the window can hold at once, and engine subprocesses that can
\* be left running without a reader.
MaxWorkers == 2

MaxOrphans == 2

\* ------------------------------------------------------ program constants
DefaultScore == 5
ScoreLo == 1
ScoreHi == 5
NaN == -1

\* ------------------------------------------------------------ input sets
\* Positions of the parcels of a file, each parcel one unit long: the first
\* two positions leave a gap of one unit, the later ones touch.
Coords == {0} \cup 2..MaxParcels
ParcelClasses == {"A", "B"}
MatrixClassSets == SUBSET ParcelClasses
CellValues == {NaN, 2, 4, 7}
Outputs == {"gpkg", "overall", "detailed"}

\* Values of a unique_id column that comes with the file (integers, no nulls).
FileIds == {7, 8}

CrsKinds == {"undefined", "geographic", "projected"}

\* Metres in one degree: longer than every adjacency distance of the model.
MetresPerDegree == MaxDist + 1

Row == [x : Coords, cls : ParcelClasses]

RECURSIVE SeqsUpTo(_)
SeqsUpTo(n) ==
    IF n = 0 THEN {<<>>}
    ELSE LET prev == SeqsUpTo(n - 1)
         IN  prev \cup {Append(s, r) : s \in {t \in prev : Len(t) = n - 1}, r \in Row}

\* Parcel files of the model: the features from left to right, no two on the
\* same position (file order is free, the engine keeps it). The matrix files
\* range over every set of classes and the engine treats no class name
\* specially, so renaming the classes maps a run to a run: the first
\* feature's class is fixed.
ParcelInputs ==
    {s \in SeqsUpTo(MaxParcels) :
        /\ \A i \in 1..Len(s) : \A j \in 1..Len(s) : i < j => s[i].x < s[j].x
        /\ Len(s) > 0 => s[1].cls = "A"}

\* The unique_id columns a file of n features may bring: any values, repeated
\* or not. Only equality between ids counts, so the first one is fixed.
IdColumns(n) == {ids \in [1..n -> FileIds] : n > 0 => ids[1] = 7}

\* Matrix files of the model: a square table over any set of the classes,
\* each cell blank (NaN) or a number.
MatrixInputs == UNION {[labels \X labels -> CellValues] : labels \in MatrixClassSets}

\* The engine: where run_analysis stands, how it ended, its arguments and the
\* tables it builds. gdf is the parcel table without its unique_id column,
\* which unique_id holds while the table has one; crs is the kind of
\* coordinate reference system of gdf.
VARIABLES pc, status, error, adjacency_distance, gdf, has_land_use,
          has_unique_id, unique_id, crs,
          compatibility_matrix, geometric_work, adjacent_pairs, scored_pairs,
          final_scores, compat_score, written, overall_summary,
          detailed_summary

\* Results of an earlier run on the same inputs (repeated-run specification).
VARIABLES first_run, pair_order

\* The columns of the parcel table (column-level specification): the columns
\* of the input file and the columns of gdf with where each value comes from.
VARIABLES input_columns, gdf_columns

\* The window of gui.py (App): the text of the output field, the state of the
\* Run button, the worker threads by their position in execute_script and the
\* configuration each was started with, the return code the worker got from
\* process.wait(), the last message box shown, the scheduled plot refreshes
\* (the path each was scheduled with, in order), what the plot tabs show, the
\* output files on disk, and the engine subprocesses still running that no
\* worker reads from any more (by their configuration); runs counts the runs
\* started so far.
VARIABLES output_path, run_button, worker, config, return_code, dialog,
          plot_refresh, plots, disk, orphans, runs

rerun_vars == <<first_run, pair_order>>

frame_vars == <<input_columns, gdf_columns>>

gui_vars == <<output_path, run_button, worker, config, return_code, dialog,
              plot_refresh, plots, disk, orphans, runs>>

\* State outside one engine run; the engine's own steps leave it alone.
other_vars == <<rerun_vars, frame_vars, gui_vars>>

vars == <<pc, status, error, adjacency_distance, gdf, has_land_use,
          has_unique_id, unique_id, crs,
          compatibility_matrix, geometric_work, adjacent_pairs, scored_pairs,
          final_scores, compat_score, written, overall_summary,
          detailed_summary, other_vars>>

\* ------------------------------------------------------------- geometry
\* gpd.read_file: one row per feature, its geometry and its land-use class.
ReadParcels(file) ==
    [i \in 1..Len(file) |-> [lo |-> file[i].x, hi |-> file[i].x + 1, cls |-> file[i].cls]]

\* gdf.to_crs(gdf.estimate_utm_crs()): degrees become metres.
to_crs(g) ==
    [i \in 1..Len(g) |->
        [lo |-> g[i].lo * MetresPerDegree, hi |-> g[i].hi * MetresPerDegree,
         cls |-> g[i].cls]]

Geometry(row) == [lo |-> row.lo, hi |-> row.hi]

Buffer(g, d) == [lo |-> g.lo - d, hi |-> g.hi + d]

Intersects(g, h) == g.lo <= h.hi /\ h.lo <= g.hi

\* Lines 173-174: the unique_id column of the file is kept as it is; only a
\* table without one gets unique_id = range(len(gdf)), row i the id i - 1.
UniqueIds(g, has_column, column) ==
    IF has_column THEN column ELSE [i \in 1..Len(g) |-> i - 1]

\* The row numbered uid by range(len(gdf)).
RowOf(g, uid) == g[uid + 1]

\* gpd.sjoin(gdf, gdf_buffered, how="inner", predicate="intersects"):
\* left = original geometry, right = buffered geometry; the rows carry the
\* unique_id values of the two parcels.
Sjoin(g, ids, d) ==
    {[unique_id_left |-> ids[p[1]], land_use_left |-> g[p[1]].cls,
      unique_id_right |-> ids[p[2]]] :
        p \in {q \in (1..Len(g)) \X (1..Len(g)) :
            Intersects(Geometry(g[q[1]]), Buffer(Geometry(g[q[2]]), d))}}

\* Variant: the self-match filter of line 181 is left out.
KeepSelfPairs(pairs) == pairs

\* Line 181: rows with the same unique_id on both sides are dropped.
DropSelfPairs(pairs) == {p \in pairs : p.unique_id_left /= p.unique_id_right}

\* ------------------------------------------------------------- scoring
\* compatibility_matrix.stack().reset_index(): one row per non-blank cell.
MatrixLong(m) ==
    {[use_1 |-> k[1], use_2 |-> k[2], score |-> m[k]] : k \in {c \in DOMAIN m : m[c] /= NaN}}

\* merge with right_uses on unique_id_right (how="left"): one row for every
\* row of gdf that holds the right id.
MergeRightUses(pairs, g, ids) ==
    {[unique_id_left |-> p.unique_id_left, land_use_left |-> p.land_use_left,
      unique_id_right |-> p.unique_id_right, land_use_right |-> g[r].cls] :
        <<p, r>> \in {q \in pairs \X (1..Len(g)) : ids[q[2]] = q[1].unique_id_right}}

\* A row of adjacent_pairs with its score column.
Scored(p, score) ==
    [unique_id_left |-> p.unique_id_left, land_use_left |-> p.land_use_left,
     unique_id_right |-> p.unique_id_right, land_use_right |-> p.land_use_right,
     score |-> score]

\* merge with matrix_long on (land_use_left, land_use_right) = (use_1, use_2),
\* how="left": a pair without a matching row keeps score NaN.
MergeScores(pairs, long) ==
    UNION {LET hits == {r \in long : r.use_1 = p.land_use_left /\ r.use_2 = p.land_use_right}
           IN  IF hits = {} THEN {Scored(p, NaN)}
               ELSE {Scored(p, r.score) : r \in hits}
           : p \in pairs}

SetMin(S) == CHOOSE m \in S : \A v \in S : m <= v

\* groupby('unique_id_left')['score'].min(): one entry per left id that has a
\* pair; NaN scores are skipped, a group of NaN only gives NaN.
GroupMin(scored) ==
    [l \in {p.unique_id_left : p \in scored} |->
        LET vals == {p.score : p \in {q \in scored : q.unique_id_left = l}} \ {NaN}
        IN  IF vals = {} THEN NaN ELSE SetMin(vals)]

\* gdf.merge(final_scores, left_on='unique_id', right_index=True, how='left')
\* then fillna(5).astype('Int64'): every row gets the entry of its unique_id.
FillScores(g, ids, fs) ==
    [i \in 1..Len(g) |->
        LET merged == IF ids[i] \in DOMAIN fs THEN fs[ids[i]] ELSE NaN
        IN  IF merged = NaN THEN DefaultScore ELSE merged]

\* ------------------------------------------------------------- reports
RECURSIVE SumOver(_, _)
SumOver(f, S) ==
    IF S = {} THEN 0
    ELSE LET k == CHOOSE e \in S : TRUE IN f[k] + SumOver(f, S \ {k})

RECURSIVE SortedSeq(_)
SortedSeq(S) ==
    IF S = {} THEN <<>>
    ELSE LET m == SetMin(S) IN <<m>> \o SortedSeq(S \ {m})

SeqRange(s) == {s[i] : i \in 1..Len(s)}

\* gdf['compat_score'].value_counts().sort_index(): one row per score present.
ValueCounts(scores) ==
    [s \in SeqRange(scores) |-> Cardinality({i \in 1..Len(scores) : scores[i] = s})]

\* percentage = parcel_count / parcel_count.sum() * 100, kept as the exact
\* fraction num/den.
WithPercentage(vc) ==
    [s \in DOMAIN vc |->
        [parcel_count |-> vc[s],
         percentage |-> [num |-> vc[s] * 100, den |-> SumOver(vc, DOMAIN vc)]]]

\* reindex(range(1, 6), fill_value=0): rows 1..5 only, absent rows are zeros.
Reindex(tab) ==
    [s \in ScoreLo..ScoreHi |->
        IF s \in DOMAIN tab THEN tab[s]
        ELSE [parcel_count |-> 0, percentage |-> [num |-> 0, den |-> 1]]]

OverallSummary(scores) == Reindex(WithPercentage(ValueCounts(scores)))

\* gdf.groupby([land_use_col, 'compat_score']).size().unstack(fill_value=0):
\* rows are the classes present, columns the scores present (ascending).
Unstack(g, scores) ==
    [columns |-> SortedSeq(SeqRange(scores)),
     cells |-> [c \in {g[i].cls : i \in 1..Len(g)} |->
                  [s \in SeqRange(scores) |->
                      Cardinality({i \in 1..Len(g) : g[i].cls = c /\ scores[i] = s})]]]

\* for score in range(1, 6): add a zero column when the score is absent.
RECURSIVE AddMissingColumns(_, _)
AddMissingColumns(tab, score) ==
    IF score > ScoreHi THEN tab
    ELSE IF score \in SeqRange(tab.columns) THEN AddMissingColumns(tab, score + 1)
    ELSE AddMissingColumns(
            [columns |-> Append(tab.columns, score),
             cells |-> [c \in DOMAIN tab.cells |->
                          [s \in SeqRange(tab.columns) \cup {score} |->
                              IF s = score THEN 0 ELSE tab.cells[c][s]]]],
            score + 1)

\* detailed_summary[sorted(detailed_summary.columns)]
SortColumns(tab) == [columns |-> SortedSeq(SeqRange(tab.columns)), cells |-> tab.cells]

\* detailed_summary['total_parcels'] = detailed_summary.sum(axis=1), the last column.
WithTotal(tab) ==
    [score_columns |-> tab.columns,
     last_column |-> "total_parcels",
     cells |-> tab.cells,
     total_parcels |-> [c \in DOMAIN tab.cells |->
                          SumOver(tab.cells[c], SeqRange(tab.columns))]]

DetailedSummary(g, scores) ==
    WithTotal(SortColumns(AddMissingColumns(Unstack(g, scores), ScoreLo)))

NoTable == [none |-> TRUE]

\* No earlier run is kept.
RerunIdle ==
    /\ first_run = NoTable
    /\ pair_order = <<>>

\* The columns of the table are not followed one by one.
FrameIdle ==
    /\ input_columns = <<>>
    /\ gdf_columns = <<>>

\* No window: the engine is run from the command line.
GuiIdle ==
    /\ output_path = ""
    /\ run_button = "none"
    /\ worker = <<>>
    /\ config = <<>>
    /\ return_code = 0
    /\ dialog = "none"
    /\ plot_refresh = <<>>
    /\ plots = "none"
    /\ disk = {}
    /\ orphans = EmptyBag
    /\ runs = 0

\* Nothing outside the engine run is in play.
OthersIdle ==
    /\ RerunIdle
    /\ FrameIdle
    /\ GuiIdle

\* ------------------------------------------------------------- pipeline
\* run_analysis is entered with its arguments; no table is built yet.
NothingBuilt ==
    /\ status = "running"
    /\ error = "none"
    /\ gdf = <<>>
    /\ has_land_use = FALSE
    /\ has_unique_id = FALSE
    /\ unique_id = <<>>
    /\ crs = "none"
    /\ compatibility_matrix = <<>>
    /\ geometric_work = FALSE
    /\ adjacent_pairs = {}
    /\ scored_pairs = {}
    /\ final_scores = <<>>
    /\ compat_score = <<>>
    /\ written = {}
    /\ overall_summary = NoTable
    /\ detailed_summary = NoTable

Init ==
    /\ OthersIdle
    /\ pc = "prepare"
    /\ adjacency_distance \in 0..MaxDist
    /\ NothingBuilt

\* A handled fatal error: the message is printed and run_analysis returns.
Return(why) ==
    /\ pc' = "done"
    /\ status' = "returned"
    /\ error' = why

\* An exception nobody catches ends the run.
Raise(why) ==
    /\ pc' = "done"
    /\ status' = "raised"
    /\ error' = why

Continue(next_pc) ==
    /\ pc' = next_pc
    /\ UNCHANGED <<status, error>>

\* Lines 114-126, outside every try: output_dir.mkdir raises when the
\* directory cannot be made (a file is in the way, no permission); without a
\* base name, parcels_path.exists() raises on a path the system rejects (a
\* file name that is too long).
PreparePaths ==
    /\ UNCHANGED other_vars
    /\ pc = "prepare"
    /\ \E base_name_given \in BOOLEAN :
          \/ Raise("mkdir_failed")
          \/ ~base_name_given /\ Raise("path_check_failed")
          \/ Continue("load_parcels")
    /\ UNCHANGED <<adjacency_distance, gdf, has_land_use, has_unique_id,
                   unique_id, crs, compatibility_matrix, geometric_work,
                   adjacent_pairs, scored_pairs, final_scores, compat_score,
                   written, overall_summary, detailed_summary>>

\* Section 1, lines 131-147: .gdb input, missing file and unreadable file are
\* caught and reported; otherwise the parcels are loaded with the columns and
\* the coordinate reference system of the file.
LoadParcels ==
    /\ UNCHANGED other_vars
    /\ pc = "load_parcels"
    /\ \/ /\ \E problem \in {"gdb", "input_not_found", "input_unreadable"} : Return(problem)
          /\ UNCHANGED <<gdf, has_land_use, has_unique_id, unique_id, crs>>
       \/ /\ \E file \in ParcelInputs :
                /\ gdf' = ReadParcels(file)
                /\ \/ has_unique_id' = FALSE /\ unique_id' = <<>>
                   \/ has_unique_id' = TRUE /\ unique_id' \in IdColumns(Len(file))
          /\ has_land_use' \in BOOLEAN
          /\ crs' \in CrsKinds
          /\ Continue("check_column")
    /\ UNCHANGED <<adjacency_distance, compatibility_matrix, geometric_work,
                   adjacent_pairs, scored_pairs, final_scores, compat_score,
                   written, overall_summary, detailed_summary>>

\* Lines 150-153.
CheckColumn ==
    /\ UNCHANGED other_vars
    /\ pc = "check_column"
    /\ IF has_land_use THEN Continue("reproject") ELSE Return("column_not_found")
    /\ UNCHANGED <<adjacency_distance, gdf, has_land_use, has_unique_id,
                   unique_id, crs, compatibility_matrix, geometric_work,
                   adjacent_pairs, scored_pairs, final_scores, compat_score,
                   written, overall_summary, detailed_summary>>

\* Lines 156-161, outside every try: an undefined CRS gives a warning only;
\* geographic coordinates are re-projected to the estimated UTM zone, or the
\* estimate or the transformation raises; projected coordinates are kept.
Reproject ==
    /\ UNCHANGED other_vars
    /\ pc = "reproject"
    /\ IF crs = "geographic"
       THEN \/ /\ gdf' = to_crs(gdf)
               /\ crs' = "projected"
               /\ Continue("load_matrix")
            \/ /\ Raise("reprojection_failed")
               /\ UNCHANGED <<gdf, crs>>
       ELSE /\ Continue("load_matrix")
            /\ UNCHANGED <<gdf, crs>>
    /\ UNCHANGED <<adjacency_distance, has_land_use, has_unique_id, unique_id,
                   compatibility_matrix, geometric_work, adjacent_pairs,
                   scored_pairs, final_scores, compat_score, written,
                   overall_summary, detailed_summary>>

\* Section 2, lines 165-168: a missing CSV is reported; a CSV pandas cannot
\* parse raises out of read_csv.
LoadMatrix ==
    /\ UNCHANGED other_vars
    /\ pc = "load_matrix"
    /\ \/ Return("matrix_not_found") /\ UNCHANGED compatibility_matrix
       \/ Raise("matrix_unparseable") /\ UNCHANGED compatibility_matrix
       \/ /\ compatibility_matrix' \in MatrixInputs
          /\ Continue("adjacency")
    /\ UNCHANGED <<adjacency_distance, gdf, has_land_use, has_unique_id,
                   unique_id, crs, geometric_work, adjacent_pairs,
                   scored_pairs, final_scores, compat_score, written,
                   overall_summary, detailed_summary>>

\* Section 3, lines 173-182.
Adjacency ==
    /\ UNCHANGED other_vars
    /\ pc = "adjacency"
    /\ geometric_work' = TRUE
    /\ has_unique_id' = TRUE
    /\ unique_id' = UniqueIds(gdf, has_unique_id, unique_id)
    /\ adjacent_pairs' = DropSelfPairs(Sjoin(gdf, unique_id', adjacency_distance))
    /\ Continue("scoring")
    /\ UNCHANGED <<adjacency_distance, gdf, has_land_use, crs,
                   compatibility_matrix, scored_pairs, final_scores,
                   compat_score, written, overall_summary, detailed_summary>>

\* Section 4, lines 188-207.
Scoring ==
    /\ UNCHANGED other_vars
    /\ pc = "scoring"
    /\ LET sp == MergeScores(MergeRightUses(adjacent_pairs, gdf, unique_id),
                             MatrixLong(compatibility_matrix))
       IN  /\ scored_pairs' = sp
           /\ final_scores' = GroupMin(sp)
    /\ Continue("finalize")
    /\ UNCHANGED <<adjacency_distance, gdf, has_land_use, has_unique_id,
                   unique_id, crs, compatibility_matrix, geometric_work,
                   adjacent_pairs, compat_score, written, overall_summary,
                   detailed_summary>>

\* Writing one output: the file is written, or the write raises (target not
\* writable) and the exception ends the run.
WriteOrRaise(output, next_pc, next_status) ==
    \/ /\ written' = written \cup {output}
       /\ pc' = next_pc
       /\ status' = next_status
       /\ UNCHANGED error
    \/ /\ Raise("write_failed")
       /\ UNCHANGED written

\* Section 5, lines 211-218: the scores are merged in and filled, the
\* unique_id column is dropped and the table is written.
Finalize ==
    /\ UNCHANGED other_vars
    /\ pc = "finalize"
    /\ compat_score' = FillScores(gdf, unique_id, final_scores)
    /\ has_unique_id' = FALSE
    /\ unique_id' = <<>>
    /\ WriteOrRaise("gpkg", "report_overall", status)
    /\ UNCHANGED <<adjacency_distance, gdf, has_land_use, crs,
                   compatibility_matrix, geometric_work, adjacent_pairs,
                   scored_pairs, final_scores, overall_summary,
                   detailed_summary>>

\* generate_reports, lines 79-83.
ReportOverall ==
    /\ UNCHANGED other_vars
    /\ pc = "report_overall"
    /\ overall_summary' = OverallSummary(compat_score)
    /\ WriteOrRaise("overall", "report_detailed", status)
    /\ UNCHANGED <<adjacency_distance, gdf, has_land_use, has_unique_id,
                   unique_id, crs, compatibility_matrix, geometric_work,
                   adjacent_pairs, scored_pairs, final_scores, compat_score,
                   detailed_summary>>

\* generate_reports, lines 87-95, and the end of run_analysis.
ReportDetailed ==
    /\ UNCHANGED other_vars
    /\ pc = "report_detailed"
    /\ detailed_summary' = DetailedSummary(gdf, compat_score)
    /\ WriteOrRaise("detailed", "done", "complete")
    /\ UNCHANGED <<adjacency_distance, gdf, has_land_use, has_unique_id,
                   unique_id, crs, compatibility_matrix, geometric_work,
                   adjacent_pairs, scored_pairs, final_scores, compat_score,
                   overall_summary>>

Next ==
    \/ PreparePaths
    \/ LoadParcels
    \/ CheckColumn
    \/ Reproject
    \/ LoadMatrix
    \/ Adjacency
    \/ Scoring
    \/ Finalize
    \/ ReportOverall
    \/ ReportDetailed

Spec == Init /\ [][Next]_vars

\* ===================================================== properties
\* Vocabulary of the properties, stated on the parcels the run works on.
N == Len(gdf)

\* Distance between the geometries of two rows (0 when they touch or overlap).
Gap(r, s) ==
    LET g == Geometry(r)
        h == Geometry(s)
    IN  IF h.lo > g.hi THEN h.lo - g.hi
        ELSE IF g.lo > h.hi THEN g.lo - h.hi
        ELSE 0

NeighboursOf(i) ==
    {j \in 1..N : j /= i /\ Gap(gdf[i], gdf[j]) <= adjacency_distance}

MatrixEntry(a, b) ==
    IF <<a, b>> \in DOMAIN compatibility_matrix THEN compatibility_matrix[<<a, b>>] ELSE NaN

ResolvedScoresOf(i) ==
    {MatrixEntry(gdf[i].cls, gdf[j].cls) : j \in NeighboursOf(i)} \ {NaN}

\* adjacent_pairs holds the row of parcel i (left) and parcel j (right).
HasPair(i, j) ==
    \E p \in adjacent_pairs :
        /\ p.unique_id_left = unique_id[i]
        /\ p.land_use_left = gdf[i].cls
        /\ p.unique_id_right = unique_id[j]

\* No other parcel carries the unique_id of parcel i.
IdOfNoOther(i) == \A k \in 1..N : k /= i => unique_id[k] /= unique_id[i]

\* Section 3 has just produced adjacent_pairs.
PairsFound == pc = "scoring"

\* Section 4 has just produced scored_pairs and final_scores.
PairsScored == pc = "finalize"

\* run_analysis has run to its end.
Completed == pc = "done" /\ status = "complete"

\* C1: after run_analysis, every parcel's compat_score is the minimum of the
\* resolved matrix scores of the pairs in which it is the left parcel
\* (unresolved pairs left out), and 5 when it has no pair or no resolved pair.
C1_WorstCaseScore ==
    Completed =>
        /\ Len(compat_score) = N
        /\ \A i \in 1..N :
              LET resolved == ResolvedScoresOf(i)
              IN  compat_score[i] =
                      IF resolved = {} THEN DefaultScore ELSE SetMin(resolved)

\* C2: the score of a pair is the matrix entry of exactly (left class, right
\* class); with s1 at (A,B) and s2 /= s1 at (B,A), a parcel of class A whose
\* only neighbour has class B scores s1 and that neighbour scores s2.
C2_DirectedLookup ==
    /\ PairsScored =>
          \A p \in scored_pairs :
              p.score = MatrixEntry(p.land_use_left, p.land_use_right)
    /\ Completed =>
          \A i \in 1..N : \A j \in 1..N :
              LET s1 == MatrixEntry(gdf[i].cls, gdf[j].cls)
                  s2 == MatrixEntry(gdf[j].cls, gdf[i].cls)
              IN  (/\ s1 /= NaN /\ s2 /= NaN /\ s1 /= s2
                   /\ NeighboursOf(i) = {j}
                   /\ NeighboursOf(j) = {i})
                  => (compat_score[i] = s1 /\ compat_score[j] = s2)

\* C3: for two distinct parcels A and B the directed pair (A,B) is found
\* exactly when their gap is at most the adjacency distance, so (A,B) is found
\* iff (B,A) is, and a gap above the distance gives no pair either way.
C3_PairsWithinDistance ==
    PairsFound =>
        \A i \in 1..N : \A j \in 1..N :
            i /= j =>
                /\ HasPair(i, j) <=> (Gap(gdf[i], gdf[j]) <= adjacency_distance)
                /\ HasPair(i, j) <=> HasPair(j, i)

\* C4: no pair used for scoring has the same parcel on both sides, at any
\* distance including 0, so a parcel never scores against itself: a parcel
\* that is alone within the distance, and alone with its id, has no entry in
\* final_scores, and a run without pairs leaves every parcel at 5.
C4_NoSelfPair ==
    /\ PairsFound => \A p \in adjacent_pairs : p.unique_id_left /= p.unique_id_right
    /\ PairsScored =>
          /\ \A p \in scored_pairs : p.unique_id_left /= p.unique_id_right
          /\ \A i \in 1..N :
                (NeighboursOf(i) = {} /\ IdOfNoOther(i))
                    => unique_id[i] \notin DOMAIN final_scores
    /\ (Completed /\ \A i \in 1..N : NeighboursOf(i) = {}) =>
          \A i \in 1..N : compat_score[i] = DefaultScore

\* At distance 0 a parcel of class A, alone within the distance, keeps 5
\* although the matrix holds 2 for (A,A), while other parcels are paired.
C4_Witness ==
    /\ Completed
    /\ adjacency_distance = 0
    /\ adjacent_pairs /= {}
    /\ \E i \in 1..N :
          /\ NeighboursOf(i) = {}
          /\ gdf[i].cls = "A"
          /\ MatrixEntry("A", "A") = 2
          /\ compat_score[i] = DefaultScore

\* C5: after a completed run there is exactly one compat_score per input
\* parcel and each is an integer in 1..5, whatever matrix the run accepted
\* (blank cells, values outside 1..5).
C5_ScoreInRange ==
    Completed =>
        /\ Len(compat_score) = N
        /\ \A i \in 1..N : compat_score[i] \in ScoreLo..ScoreHi

CountWithScore(s) == Cardinality({i \in 1..N : compat_score[i] = s})

CountOfClass(c) == Cardinality({i \in 1..N : gdf[i].cls = c})

CountOfClassWithScore(c, s) ==
    Cardinality({i \in 1..N : gdf[i].cls = c /\ compat_score[i] = s})

\* C6: the overall summary has exactly the 5 rows 1..5 and the detailed
\* breakdown exactly the 5 score columns 1..5 in ascending order, followed by
\* total_parcels.
C6_ZeroFill ==
    Completed =>
        /\ DOMAIN overall_summary = ScoreLo..ScoreHi
        /\ detailed_summary.score_columns = <<1, 2, 3, 4, 5>>
        /\ detailed_summary.last_column = "total_parcels"

\* C7: every parcel is counted exactly once: overall counts per score, the
\* five counts summing to the number of parcels, percentages 100*count/N,
\* detailed cells per (class, score) and total_parcels per class.
C7_CountedOnce ==
    Completed =>
        /\ \A s \in ScoreLo..ScoreHi :
              /\ overall_summary[s].parcel_count = CountWithScore(s)
              /\ overall_summary[s].percentage.num * N
                    = 100 * CountWithScore(s) * overall_summary[s].percentage.den
        /\ SumOver([s \in ScoreLo..ScoreHi |-> overall_summary[s].parcel_count],
                   ScoreLo..ScoreHi) = N
        /\ DOMAIN detailed_summary.cells = {gdf[i].cls : i \in 1..N}
        /\ \A c \in DOMAIN detailed_summary.cells :
              /\ \A s \in ScoreLo..ScoreHi :
                    detailed_summary.cells[c][s] = CountOfClassWithScore(c, s)
              /\ detailed_summary.total_parcels[c] = CountOfClass(c)

\* gpd.read_file has returned the parcel table.
ParcelsLoaded == crs /= "none"

StructuralError ==
    \/ error \in {"column_not_found", "matrix_not_found", "matrix_unparseable"}
    \/ (ParcelsLoaded /\ ~has_land_use)
    \/ (ParcelsLoaded /\ N = 0)

\* C8: with a structural input error (land-use column missing, empty parcel
\* collection, matrix missing or malformed) the run aborts before any
\* geometric work and writes no output.
C8_StructuralAbort ==
    StructuralError => (~geometric_work /\ written = {})

MatrixHasNoEntries == \A k \in DOMAIN compatibility_matrix : compatibility_matrix[k] = NaN

ClassOutsideMatrix(i) ==
    \A k \in DOMAIN compatibility_matrix : gdf[i].cls /= k[1] /\ gdf[i].cls /= k[2]

Degenerate ==
    \/ adjacent_pairs = {}
    \/ MatrixHasNoEntries
    \/ \E i \in 1..N : ClassOutsideMatrix(i)

\* C9: a run on degenerate but structurally valid data (no two parcels within
\* the distance, a matrix without entries, a class in no matrix row or
\* column) whose outputs can be written ends complete with the scored
\* collection and both summaries, the affected parcels at the default 5.
C9_DegenerateRunCompletes ==
    (pc = "done" /\ error = "none" /\ N > 0 /\ Degenerate) =>
        /\ status = "complete"
        /\ written = Outputs
        /\ Len(compat_score) = N
        /\ DOMAIN overall_summary = ScoreLo..ScoreHi
        /\ DOMAIN detailed_summary.cells = {gdf[i].cls : i \in 1..N}
        /\ (adjacent_pairs = {} \/ MatrixHasNoEntries) =>
              \A i \in 1..N : compat_score[i] = DefaultScore
        /\ \A i \in 1..N : ClassOutsideMatrix(i) => compat_score[i] = DefaultScore

\* C10: whenever a run ends, all three outputs have been written or none.
C10_AllOrNothing ==
    pc = "done" => (written = {} \/ written = Outputs)


\* ===================================================== repeated runs
\* Two runs of run_analysis on the same parcels, matrix, column and distance.
\* The tables of lines 180-207 are kept as row sequences here, so that the
\* order in which the spatial join yields its pairs is part of the run. The
\* parcel file has no unique_id column: the ids are range(len(gdf)).

\* An order of discovery: the rank the join gives each parcel id.
Orders(n) ==
    {f \in [0..(n - 1) -> 0..(n - 1)] : \A a, b \in 0..(n - 1) : f[a] = f[b] => a = b}

\* The order of the index: parcel ids ascending.
IndexOrder(n) == [u \in 0..(n - 1) |-> u]

IdAtRank(order, rank) == CHOOSE u \in DOMAIN order : order[u] = rank

\* The pairs of lines 180-182 as rows: left ids in the order of discovery and,
\* for one left id, right ids in that order. Position k of the n * n candidate
\* positions holds the pair of ranks (k \div n, k % n).
RECURSIVE AdjacentRows(_, _, _, _)
AdjacentRows(pairs, g, order, k) ==
    IF k >= Len(g) * Len(g) THEN <<>>
    ELSE LET l == IdAtRank(order, k \div Len(g))
             row == [unique_id_left |-> l, land_use_left |-> RowOf(g, l).cls,
                     unique_id_right |-> IdAtRank(order, k % Len(g))]
         IN  IF row \in pairs
             THEN <<row>> \o AdjacentRows(pairs, g, order, k + 1)
             ELSE AdjacentRows(pairs, g, order, k + 1)

\* Lines 188-204 as rows: the two left merges keep the order of the left table.
RECURSIVE ScoredRows(_, _, _, _, _)
ScoredRows(rows, k, g, ids, long) ==
    IF k > Len(rows) THEN <<>>
    ELSE <<CHOOSE s \in MergeScores(MergeRightUses({rows[k]}, g, ids), long) : TRUE>>
         \o ScoredRows(rows, k + 1, g, ids, long)

\* Variant: the reduction keeps the last resolved score of a group, not the least.
ReduceLast(acc, row) ==
    IF row.unique_id_left \notin DOMAIN acc
    THEN acc @@ (row.unique_id_left :> row.score)
    ELSE [acc EXCEPT ![row.unique_id_left] = IF row.score = NaN THEN @ ELSE row.score]

\* One step of groupby('unique_id_left')['score'].min() (line 207): the row's
\* score enters its group; NaN is skipped, the least resolved score is kept.
ReduceMin(acc, row) ==
    IF row.unique_id_left \notin DOMAIN acc
    THEN acc @@ (row.unique_id_left :> row.score)
    ELSE [acc EXCEPT ![row.unique_id_left] =
            IF row.score = NaN THEN @
            ELSE IF @ = NaN THEN row.score
            ELSE IF row.score < @ THEN row.score ELSE @]

\* Line 207 over the rows in their order.
RECURSIVE FoldGroupMin(_, _, _)
FoldGroupMin(rows, k, acc) ==
    IF k > Len(rows) THEN acc
    ELSE FoldGroupMin(rows, k + 1, ReduceMin(acc, rows[k]))

\* Lines 188-214 of one run: the compat_score column.
RunScores(pairs, g, ids, m, order) ==
    FillScores(g, ids,
               FoldGroupMin(ScoredRows(AdjacentRows(pairs, g, order, 0), 1, g, ids,
                                       MatrixLong(m)),
                            1, <<>>))

\* The matrices of the repeated runs: every cell holds a score. A pair stays
\* unresolved (NaN) when one of its classes is not a label of the matrix.
RerunMatrixInputs ==
    {m \in MatrixInputs : \A k \in DOMAIN m : m[k] \in {2, 4}}

\* The first run has read its inputs: parcels in projected coordinates with
\* the land-use column and without a unique_id column, and the matrix.
InitRerun ==
    /\ OthersIdle
    /\ pc = "first_adjacency"
    /\ status = "running"
    /\ error = "none"
    /\ adjacency_distance \in 0..MaxDist
    /\ \E file \in ParcelInputs : gdf = ReadParcels(file)
    /\ has_land_use = TRUE
    /\ has_unique_id = FALSE
    /\ unique_id = <<>>
    /\ crs = "projected"
    /\ compatibility_matrix \in RerunMatrixInputs
    /\ geometric_work = FALSE
    /\ adjacent_pairs = {}
    /\ scored_pairs = {}
    /\ final_scores = <<>>
    /\ compat_score = <<>>
    /\ written = {}
    /\ overall_summary = NoTable
    /\ detailed_summary = NoTable

\* Section 3 of a run, lines 173-182: the pairs the join finds.
RunAdjacency ==
    /\ pc \in {"first_adjacency", "second_adjacency"}
    /\ has_unique_id' = TRUE
    /\ unique_id' = UniqueIds(gdf, has_unique_id, unique_id)
    /\ adjacent_pairs' = DropSelfPairs(Sjoin(gdf, unique_id', adjacency_distance))
    /\ pc' = IF pc = "first_adjacency" THEN "first_scoring" ELSE "second_scoring"
    /\ UNCHANGED <<status, error, adjacency_distance, gdf, has_land_use, crs,
                   compatibility_matrix, geometric_work, scored_pairs,
                   final_scores, compat_score, written, overall_summary,
                   detailed_summary, first_run, pair_order, frame_vars,
                   gui_vars>>

\* Sections 4 and 5 of a run, lines 188-218. The first run takes the pairs in
\* the order of the index, the second run in any order; the scored table is
\* written, or the write raises and ends the run.
RunScoring ==
    /\ pc \in {"first_scoring", "second_scoring"}
    /\ \E order \in (IF pc = "first_scoring" THEN {IndexOrder(Len(gdf))}
                     ELSE Orders(Len(gdf))) :
          /\ pair_order' = order
          /\ compat_score' = RunScores(adjacent_pairs, gdf, unique_id,
                                       compatibility_matrix, order)
    /\ has_unique_id' = FALSE
    /\ unique_id' = <<>>
    /\ WriteOrRaise("gpkg",
                    IF pc = "first_scoring" THEN "first_reports" ELSE "second_reports",
                    status)
    /\ UNCHANGED <<adjacency_distance, gdf, has_land_use, crs,
                   compatibility_matrix, geometric_work, adjacent_pairs,
                   scored_pairs, final_scores, overall_summary,
                   detailed_summary, first_run, frame_vars, gui_vars>>

\* generate_reports of a run (line 222): the overall summary is built and
\* saved (79-83), then the detailed breakdown (87-95); either to_csv may raise.
RunReports ==
    /\ pc \in {"first_reports", "second_reports"}
    /\ overall_summary' = OverallSummary(compat_score)
    /\ \/ /\ Raise("write_failed")
          /\ UNCHANGED <<written, detailed_summary>>
       \/ /\ detailed_summary' = DetailedSummary(gdf, compat_score)
          /\ \/ /\ Raise("write_failed")
                /\ written' = written \cup {"overall"}
             \/ /\ written' = written \cup {"overall", "detailed"}
                /\ UNCHANGED error
                /\ IF pc = "first_reports"
                   THEN pc' = "first_done" /\ UNCHANGED status
                   ELSE pc' = "done" /\ status' = "complete"
    /\ UNCHANGED <<adjacency_distance, gdf, has_land_use, has_unique_id,
                   unique_id, crs, compatibility_matrix, geometric_work,
                   adjacent_pairs, scored_pairs, final_scores, compat_score,
                   first_run, pair_order, frame_vars, gui_vars>>

\* run_analysis is called again with the same arguments; what the first run
\* produced is kept aside for the comparison.
RunAgain ==
    /\ pc = "first_done"
    /\ first_run' = [compat_score |-> compat_score,
                     overall_summary |-> overall_summary,
                     detailed_summary |-> detailed_summary]
    /\ compat_score' = <<>>
    /\ overall_summary' = NoTable
    /\ detailed_summary' = NoTable
    /\ pair_order' = <<>>
    /\ adjacent_pairs' = {}
    /\ written' = {}
    /\ pc' = "second_adjacency"
    /\ UNCHANGED <<status, error, adjacency_distance, gdf, has_land_use,
                   has_unique_id, unique_id, crs, compatibility_matrix,
                   geometric_work, scored_pairs, final_scores, frame_vars,
                   gui_vars>>

NextRerun ==
    \/ RunAdjacency
    \/ RunScoring
    \/ RunReports
    \/ RunAgain

SpecRerun == InitRerun /\ [][NextRerun]_vars

\* Both runs went through to their end.
BothRunsDone == pc = "done" /\ status = "complete" /\ first_run /= NoTable

\* C11: two runs on identical parcels, matrix, land-use column and distance
\* give the same compat_score for every parcel and the same two summary
\* tables, whatever the order in which the pairs were found, scored and reduced.
C11_Deterministic ==
    BothRunsDone =>
        /\ compat_score = first_run.compat_score
        /\ overall_summary = first_run.overall_summary
        /\ detailed_summary = first_run.detailed_summary

\* The two runs met the scores of one group in opposite orders: parcel i has
\* neighbours j before k in the index with different resolved scores, and the
\* second run found k before j; both runs gave i the smaller of the two.
C11_Witness ==
    /\ BothRunsDone
    /\ written = Outputs
    /\ \E i \in 1..N : \E j, k \in NeighboursOf(i) :
          /\ j < k
          /\ pair_order[j - 1] > pair_order[k - 1]
          /\ MatrixEntry(gdf[i].cls, gdf[j].cls) = 2
          /\ MatrixEntry(gdf[i].cls, gdf[k].cls) = 4
          /\ compat_score[i] = 2
          /\ first_run.compat_score[i] = 2


\* ===================================================== columns of the table
\* The run followed column by column: which columns gdf has at each step of
\* run_analysis and where the values of each column come from.

LandUseColumn == "land_use"

\* Columns a parcel file may have besides its geometry and its land-use column.
OptionalColumns == {"unique_id", "compat_score", "parcel_id", "area"}

\* gpd.read_file: every column of the file, with the values of the file.
ReadFile(optional) ==
    [c \in {"geometry", LandUseColumn} \cup optional |-> "input"]

\* gdf.to_crs(...): the geometry column holds re-projected coordinates.
ToCrs(cols) == [cols EXCEPT !["geometry"] = "reprojected"]

\* gdf['unique_id'] = range(len(gdf)), only when the column is absent.
AddUniqueId(cols) ==
    IF "unique_id" \in DOMAIN cols THEN cols
    ELSE [c \in DOMAIN cols \cup {"unique_id"} |->
            IF c = "unique_id" THEN "range" ELSE cols[c]]

\* gdf.merge(final_scores.rename('compat_score'), ...): a column of that name
\* on both sides comes out as compat_score_x (left) and compat_score_y (right).
MergeCompatScore(cols) ==
    IF "compat_score" \in DOMAIN cols
    THEN [c \in (DOMAIN cols \ {"compat_score"}) \cup {"compat_score_x", "compat_score_y"} |->
            IF c = "compat_score_x" THEN cols["compat_score"]
            ELSE IF c = "compat_score_y" THEN "final_scores"
            ELSE cols[c]]
    ELSE [c \in DOMAIN cols \cup {"compat_score"} |->
            IF c = "compat_score" THEN "final_scores" ELSE cols[c]]

\* gdf['compat_score'].fillna(5).astype('Int64'), assigned back.
FillCompatScore(cols) == [cols EXCEPT !["compat_score"] = "score"]

\* gdf.drop(columns=['unique_id'])
DropUniqueId(cols) == [c \in DOMAIN cols \ {"unique_id"} |-> cols[c]]

\* The parcels are read and hold the land-use column; the matrix file exists.
InitFrame ==
    /\ RerunIdle
    /\ GuiIdle
    /\ pc = "reproject"
    /\ status = "running"
    /\ error = "none"
    /\ adjacency_distance = 0
    /\ gdf = <<>>
    /\ has_land_use = TRUE
    /\ unique_id = <<>>
    /\ compatibility_matrix = <<>>
    /\ geometric_work = FALSE
    /\ adjacent_pairs = {}
    /\ scored_pairs = {}
    /\ final_scores = <<>>
    /\ compat_score = <<>>
    /\ written = {}
    /\ overall_summary = NoTable
    /\ detailed_summary = NoTable
    /\ \E optional \in SUBSET OptionalColumns :
          /\ input_columns = ReadFile(optional)
          /\ gdf_columns = ReadFile(optional)
          /\ has_unique_id = ("unique_id" \in optional)
    /\ crs \in CrsKinds

FrameUnchanged ==
    UNCHANGED <<adjacency_distance, gdf, has_land_use, unique_id,
                compatibility_matrix, geometric_work, adjacent_pairs,
                scored_pairs, final_scores, compat_score, overall_summary,
                detailed_summary, rerun_vars, gui_vars, input_columns>>

\* Lines 156-161.
FrameReproject ==
    /\ pc = "reproject"
    /\ IF crs = "geographic"
       THEN \/ /\ gdf_columns' = ToCrs(gdf_columns)
               /\ crs' = "projected"
               /\ Continue("add_unique_id")
            \/ /\ Raise("reprojection_failed")
               /\ UNCHANGED <<gdf_columns, crs>>
       ELSE /\ Continue("add_unique_id")
            /\ UNCHANGED <<gdf_columns, crs>>
    /\ UNCHANGED <<written, has_unique_id>>
    /\ FrameUnchanged

\* Lines 173-174.
FrameAddUniqueId ==
    /\ pc = "add_unique_id"
    /\ gdf_columns' = AddUniqueId(gdf_columns)
    /\ has_unique_id' = TRUE
    /\ Continue("merge_scores")
    /\ UNCHANGED <<written, crs>>
    /\ FrameUnchanged

\* Line 211. (Lines 177-207 work on copies and new tables, not on gdf.)
FrameMergeScores ==
    /\ pc = "merge_scores"
    /\ gdf_columns' = MergeCompatScore(gdf_columns)
    /\ Continue("fill_scores")
    /\ UNCHANGED <<written, crs, has_unique_id>>
    /\ FrameUnchanged

\* Lines 213-214: gdf['compat_score'] of a table without that column raises
\* KeyError.
FrameFillScores ==
    /\ pc = "fill_scores"
    /\ IF "compat_score" \in DOMAIN gdf_columns
       THEN gdf_columns' = FillCompatScore(gdf_columns) /\ Continue("drop_unique_id")
       ELSE Raise("key_error") /\ UNCHANGED gdf_columns
    /\ UNCHANGED <<written, crs, has_unique_id>>
    /\ FrameUnchanged

\* Line 217.
FrameDropUniqueId ==
    /\ pc = "drop_unique_id"
    /\ gdf_columns' = DropUniqueId(gdf_columns)
    /\ has_unique_id' = FALSE
    /\ Continue("export")
    /\ UNCHANGED <<written, crs>>
    /\ FrameUnchanged

\* Line 218: the table is written as it stands, or to_file raises.
FrameExport ==
    /\ pc = "export"
    /\ WriteOrRaise("gpkg", "save_overall", status)
    /\ UNCHANGED <<gdf_columns, crs, has_unique_id>>
    /\ FrameUnchanged

\* generate_reports, line 83: the overall summary is saved, or to_csv raises.
FrameSaveOverall ==
    /\ pc = "save_overall"
    /\ WriteOrRaise("overall", "save_detailed", status)
    /\ UNCHANGED <<gdf_columns, crs, has_unique_id>>
    /\ FrameUnchanged

\* generate_reports, line 95: the detailed breakdown is saved, or to_csv
\* raises; run_analysis ends.
FrameSaveDetailed ==
    /\ pc = "save_detailed"
    /\ WriteOrRaise("detailed", "done", "complete")
    /\ UNCHANGED <<gdf_columns, crs, has_unique_id>>
    /\ FrameUnchanged

NextFrame ==
    \/ FrameReproject
    \/ FrameAddUniqueId
    \/ FrameMergeScores
    \/ FrameFillScores
    \/ FrameDropUniqueId
    \/ FrameExport
    \/ FrameSaveOverall
    \/ FrameSaveDetailed

SpecFrame == InitFrame /\ [][NextFrame]_vars

\* The attributes of a parcel: every column of the input but the geometry.
InputAttributes == DOMAIN input_columns \ {"geometry"}

\* C12: the scored collection holds every attribute the parcel had on input,
\* with the value it had, and one new field, compat_score; no input attribute
\* is removed, renamed or overwritten, whatever columns the input has.
C12_OnlyCompatScoreAdded ==
    (pc = "done" /\ status = "complete") =>
        /\ \A c \in InputAttributes :
              c \in DOMAIN gdf_columns /\ gdf_columns[c] = input_columns[c]
        /\ DOMAIN gdf_columns \ DOMAIN input_columns = {"compat_score"}


\* ===================================================== the window (gui.py)
\* App runs the engine as a subprocess: the click handler runs on the main
\* thread, execute_script on a worker thread, update_visuals on the main thread
\* when a scheduled call comes up. The engine is seen from outside: whether the
\* process runs, what it has written so far, and how it ended.

\* Calls of update_visuals that can wait in the main loop at once.
MaxPending == 2

\* Runs started from the window that the model follows.
MaxRuns == 2

\* The ways the engine script ends: parse_args rejects the command line
\* (usage error), or run_analysis returns after a FATAL ERROR message, raises,
\* or completes.
EngineEnds ==
    {[status |-> "usage_error", error |-> "usage", written |-> {}]}
    \cup {[status |-> "returned", error |-> e, written |-> {}] :
            e \in {"gdb", "input_not_found", "input_unreadable", "column_not_found",
                   "matrix_not_found"}}
    \cup {[status |-> "raised", error |-> e, written |-> {}] :
            e \in {"mkdir_failed", "path_check_failed", "reprojection_failed",
                   "matrix_unparseable", "key_error"}}
    \cup {[status |-> "raised", error |-> "write_failed", written |-> w] :
            w \in {{}, {"gpkg"}, {"gpkg", "overall"}}}
    \cup {[status |-> "complete", error |-> "none", written |-> Outputs]}

\* Every end of a run of run_analysis is one of EngineEnds.
EngineEndIsKnown ==
    pc = "done" => [status |-> status, error |-> error, written |-> written] \in EngineEnds

\* The exit code of the engine process: argparse exits with 2 on a command
\* line it rejects (a value that begins with "-", a distance that is no
\* float), before run_analysis is called; the script has no sys.exit of its
\* own, so the code is 0 when run_analysis returns (normally or after a FATAL
\* ERROR message) and 1 when an exception leaves the script.
ExitCode(end) ==
    IF end.status = "usage_error" THEN 2
    ELSE IF end.status = "raised" THEN 1
    ELSE 0

\* The engine writes its outputs in this order (lines 218, 83, 95): the first
\* of them that is not in the set yet.
NextOutput(done) ==
    IF "gpkg" \notin done THEN "gpkg"
    ELSE IF "overall" \notin done THEN "overall"
    ELSE "detailed"

\* ------------------------------------------------------------ output paths
\* Texts of the output field: empty (as the window starts), two paths with a
\* file name of their own, and a path without a file name.
NoPath == ""
OutputPaths == {"out/first.gpkg", "out/second.gpkg", "."}

\* The stem of the input path, which the engine falls back to.
InputStem == "parcels"

\* File names with the suffix .gpkg, by their stem. A name that begins with
\* its only dot has no suffix.
GpkgStems == {"first", "second", InputStem}

\* pathlib.Path(text): the parent and the file name of a path.
Path(text) ==
    CASE text = "out/first.gpkg" -> [parent |-> "out", name |-> "first.gpkg"]
      [] text = "out/second.gpkg" -> [parent |-> "out", name |-> "second.gpkg"]
      [] OTHER -> [parent |-> ".", name |-> ""]

\* Path.stem: the file name without its last suffix.
Stem(name) ==
    IF \E s \in GpkgStems : name = s \o ".gpkg"
    THEN CHOOSE s \in GpkgStems : name = s \o ".gpkg"
    ELSE name

\* write_config, lines 199-200: what a run keeps of the output field.
write_config(text) ==
    [output_dir |-> Path(text).parent, base_name |-> Stem(Path(text).name)]

NoConfig == [output_dir |-> "", base_name |-> ""]

\* execute_script, line 229: the path handed to update_visuals.
output_file_for_plots(cfg) ==
    [parent |-> cfg.output_dir, name |-> cfg.base_name \o ".gpkg"]

\* The file names of the three outputs of a base name (analysis_engine.py
\* lines 125, 82, 94; gui.py lines 118-119).
FileName(base, kind) ==
    CASE kind = "gpkg" -> base \o ".gpkg"
      [] kind = "overall" -> base \o "_overall_summary.csv"
      [] kind = "detailed" -> base \o "_detailed_breakdown.csv"

\* analysis_engine.py, lines 119-125: an empty base name is replaced by the
\* stem of the input path; the outputs go to output_dir under that base.
EngineFile(cfg, kind) ==
    [parent |-> cfg.output_dir,
     name |-> FileName(IF cfg.base_name /= "" THEN cfg.base_name ELSE InputStem, kind)]

\* The outputs of a run with this configuration that are on disk.
WrittenBy(cfg) == {kind \in Outputs : EngineFile(cfg, kind) \in disk}

\* update_visuals, lines 116-119: the two summary files looked for.
PlotFiles(gpkg_path) ==
    {[parent |-> gpkg_path.parent, name |-> FileName(Stem(gpkg_path.name), kind)] :
        kind \in {"overall", "detailed"}}

InitGui ==
    /\ RerunIdle
    /\ FrameIdle
    /\ pc = "not_started"
    /\ status = "none"
    /\ error = "none"
    /\ adjacency_distance = 0
    /\ gdf = <<>>
    /\ has_land_use = FALSE
    /\ has_unique_id = FALSE
    /\ unique_id = <<>>
    /\ crs = "none"
    /\ compatibility_matrix = <<>>
    /\ geometric_work = FALSE
    /\ adjacent_pairs = {}
    /\ scored_pairs = {}
    /\ final_scores = <<>>
    /\ compat_score = <<>>
    /\ written = {}
    /\ overall_summary = NoTable
    /\ detailed_summary = NoTable
    /\ output_path = NoPath
    /\ run_button = "normal"
    /\ worker = [w \in 1..MaxWorkers |-> "idle"]
    /\ config = [w \in 1..MaxWorkers |-> NoConfig]
    /\ return_code = 0
    /\ dialog = "none"
    /\ plot_refresh = <<>>
    /\ plots = "none"
    /\ disk = {}
    /\ orphans = EmptyBag
    /\ runs = 0

\* What no step of the window touches.
GuiUnchanged ==
    UNCHANGED <<adjacency_distance, gdf, has_land_use, has_unique_id, unique_id,
                crs, compatibility_matrix, geometric_work, adjacent_pairs,
                scored_pairs, final_scores, compat_score, overall_summary,
                detailed_summary, rerun_vars, frame_vars>>

EngineUnchanged == UNCHANGED <<pc, status, error, written>>

\* select_output (178-180): the path chosen in the Save As dialog is put into
\* the output field (a cancelled dialog changes nothing). A run that has
\* started keeps the path it was started with.
select_output ==
    /\ \E text \in OutputPaths \ {output_path} : output_path' = text
    /\ UNCHANGED <<run_button, worker, config, return_code, dialog, plot_refresh,
                   plots, disk, orphans, runs>>
    /\ EngineUnchanged
    /\ GuiUnchanged

\* The output entry (line 66), bound to output_path: the text is edited by
\* hand, to another path or to nothing.
output_entry ==
    /\ \E text \in (OutputPaths \cup {NoPath}) \ {output_path} : output_path' = text
    /\ UNCHANGED <<run_button, worker, config, return_code, dialog, plot_refresh,
                   plots, disk, orphans, runs>>
    /\ EngineUnchanged
    /\ GuiUnchanged

\* The Run button's command (lines 212-225); a disabled button does not call
\* it. write_config (182-210) shows an error box and returns None when a field
\* is empty or the distance is not a number; otherwise the button is disabled
\* and a worker thread is started with the configuration.
run_analysis_thread ==
    /\ run_button = "normal"
    /\ \/ /\ dialog' = "Missing Information"
          /\ UNCHANGED <<run_button, worker, config, runs>>
       \/ /\ output_path /= NoPath
          /\ dialog' = "Invalid Value"
          /\ UNCHANGED <<run_button, worker, config, runs>>
       \/ /\ output_path /= NoPath
          /\ runs < MaxRuns
          /\ runs' = runs + 1
          /\ run_button' = "disabled"
          /\ \E w \in DOMAIN worker :
                /\ worker[w] = "idle"
                /\ worker' = [worker EXCEPT ![w] = "started"]
                /\ config' = [config EXCEPT ![w] = write_config(output_path)]
          /\ UNCHANGED dialog
    /\ UNCHANGED <<output_path, return_code, plot_refresh, plots, disk, orphans>>
    /\ EngineUnchanged
    /\ GuiUnchanged

\* The except branch of execute_script (276-277), entered from any line of
\* the try body: the "Fatal Error" box is shown, or that call fails as well
\* and no box appears.
ExceptBranch(w) ==
    /\ worker' = [worker EXCEPT ![w] = "failed"]
    /\ dialog' = "Fatal Error" \/ UNCHANGED dialog

\* execute_script, lines 229-256: the engine process is started, or Popen
\* raises.
Popen ==
    \E w \in DOMAIN worker :
        /\ worker[w] = "started"
        /\ \/ /\ worker' = [worker EXCEPT ![w] = "streaming"]
              /\ pc' = "running"
              /\ status' = "running"
              /\ error' = "none"
              /\ written' = {}
              /\ UNCHANGED dialog
           \/ /\ ExceptBranch(w)
              /\ EngineUnchanged
        /\ UNCHANGED <<output_path, run_button, config, return_code, plot_refresh,
                       plots, disk, orphans, runs>>
        /\ GuiUnchanged

\* The engine process of the current worker writes its next output file
\* (analysis_engine.py lines 218, 83, 95) while the worker reads its output.
EngineWrites ==
    \E w \in DOMAIN worker :
        /\ worker[w] = "streaming"
        /\ pc = "running"
        /\ written /= Outputs
        /\ written' = written \cup {NextOutput(written)}
        /\ disk' = disk \cup {EngineFile(config[w], NextOutput(written))}
        /\ UNCHANGED <<pc, status, error>>
        /\ UNCHANGED <<output_path, run_button, worker, config, return_code, dialog,
                       plot_refresh, plots, orphans, runs>>
        /\ GuiUnchanged

\* The engine process of the current worker ends, in one of the ways that
\* leave what it has written.
EngineExits ==
    /\ pc = "running"
    /\ \E end \in EngineEnds :
          /\ end.written = written
          /\ pc' = "done"
          /\ status' = end.status
          /\ error' = end.error
    /\ UNCHANGED written
    /\ UNCHANGED gui_vars
    /\ GuiUnchanged

\* Lines 259-267 raising (a line of the engine's output that is not UTF-8, a
\* Tk call of the worker thread that fails): the process is neither waited
\* for nor stopped, so an engine that has not ended runs on without a reader.
StreamRaises ==
    \E w \in DOMAIN worker :
        /\ worker[w] = "streaming"
        /\ ExceptBranch(w)
        /\ IF pc = "running"
           THEN /\ BagCardinality(orphans) < MaxOrphans
                /\ orphans' = orphans (+) SetToBag({config[w]})
                /\ pc' = "detached"
           ELSE UNCHANGED <<orphans, pc>>
        /\ UNCHANGED <<status, error, written>>
        /\ UNCHANGED <<output_path, run_button, config, return_code, plot_refresh,
                       plots, disk, runs>>
        /\ GuiUnchanged

\* Lines 259-267: the engine has ended, its output is read to the end and
\* process.wait() gives the exit code.
ProcessWait ==
    \E w \in DOMAIN worker :
        /\ worker[w] = "streaming"
        /\ pc = "done"
        /\ return_code' = ExitCode([status |-> status, error |-> error,
                                    written |-> written])
        /\ worker' = [worker EXCEPT ![w] = "waited"]
        /\ UNCHANGED <<output_path, run_button, config, dialog, plot_refresh, plots,
                       disk, orphans, runs>>
        /\ EngineUnchanged
        /\ GuiUnchanged

\* Lines 269-270 and 273-274: the Success box or the Error box is shown; the
\* worker stays in the call until the box is closed.
ShowResult ==
    \E w \in DOMAIN worker :
        /\ worker[w] = "waited"
        /\ IF return_code = 0
           THEN dialog' = "Success" /\ worker' = [worker EXCEPT ![w] = "success_box"]
           ELSE dialog' = "Error" /\ worker' = [worker EXCEPT ![w] = "error_box"]
        /\ UNCHANGED <<output_path, run_button, config, return_code, plot_refresh,
                       plots, disk, orphans, runs>>
        /\ EngineUnchanged
        /\ GuiUnchanged

\* Line 272, after the Success box is closed: update_visuals is scheduled on
\* the main loop with the path of this run.
ScheduleRefresh ==
    \E w \in DOMAIN worker :
        /\ worker[w] = "success_box"
        /\ Len(plot_refresh) < MaxPending
        /\ plot_refresh' = Append(plot_refresh, output_file_for_plots(config[w]))
        /\ worker' = [worker EXCEPT ![w] = "scheduled"]
        /\ UNCHANGED <<output_path, run_button, config, return_code, dialog, plots,
                       disk, orphans, runs>>
        /\ EngineUnchanged
        /\ GuiUnchanged

\* A Tk call of lines 270, 272 or 274 raises in the worker thread: the
\* Success or the Error box cannot be shown (from waited), the call fails
\* while the box is up or when it is closed (from success_box, error_box), or
\* the refresh cannot be scheduled (from success_box). The except branch is
\* entered and nothing is scheduled.
ResultRaises ==
    \E w \in DOMAIN worker :
        /\ worker[w] \in {"waited", "success_box", "error_box"}
        /\ ExceptBranch(w)
        /\ UNCHANGED <<output_path, run_button, config, return_code, plot_refresh,
                       plots, disk, orphans, runs>>
        /\ EngineUnchanged
        /\ GuiUnchanged

\* Lines 278-279, the finally branch: the button is enabled again, unless the
\* call fails as the other Tk calls of the worker thread can. The worker
\* thread ends, and with it its configuration, its process object and the
\* return code it held.
FinallyEnable ==
    \E w \in DOMAIN worker :
        /\ worker[w] \in {"scheduled", "error_box", "failed"}
        /\ run_button' = "normal" \/ UNCHANGED run_button
        /\ worker' = [worker EXCEPT ![w] = "idle"]
        /\ config' = [config EXCEPT ![w] = NoConfig]
        /\ return_code' = 0
        /\ pc' = "not_started"
        /\ status' = "none"
        /\ error' = "none"
        /\ written' = {}
        /\ UNCHANGED <<output_path, dialog, plot_refresh, plots, disk, orphans, runs>>
        /\ GuiUnchanged

\* update_visuals (113-164), called by the main loop with the path of the run
\* that scheduled it. An exception before the old plots are cleared (the stat
\* of a path fails) shows "Visualization Error" and leaves the tabs as they
\* are; without both summary files of that path a warning is shown; with
\* both, the old plots are cleared and the two charts are drawn, or reading
\* or drawing raises and "Visualization Error" is shown over no chart or over
\* the first chart only.
update_visuals ==
    /\ plot_refresh /= <<>>
    /\ plot_refresh' = Tail(plot_refresh)
    /\ \/ /\ dialog' = "Visualization Error"
          /\ UNCHANGED plots
       \/ /\ ~(PlotFiles(Head(plot_refresh)) \subseteq disk)
          /\ dialog' = "Warning"
          /\ UNCHANGED plots
       \/ /\ PlotFiles(Head(plot_refresh)) \subseteq disk
          /\ \/ plots' = "drawn" /\ UNCHANGED dialog
             \/ /\ dialog' = "Visualization Error"
                /\ plots' \in {"none", "overall_only"}
    /\ UNCHANGED <<output_path, run_button, worker, config, return_code, disk,
                   orphans, runs>>
    /\ EngineUnchanged
    /\ GuiUnchanged

\* An engine process without a reader writes its next output (the files it
\* has written are on disk already).
OrphanWrites ==
    /\ \E cfg \in BagToSet(orphans) :
          /\ WrittenBy(cfg) /= Outputs
          /\ disk' = disk \cup {EngineFile(cfg, NextOutput(WrittenBy(cfg)))}
    /\ UNCHANGED <<output_path, run_button, worker, config, return_code, dialog,
                   plot_refresh, plots, orphans, runs>>
    /\ EngineUnchanged
    /\ GuiUnchanged

\* An engine process without a reader ends.
OrphanExits ==
    /\ \E cfg \in BagToSet(orphans) : orphans' = orphans (-) SetToBag({cfg})
    /\ UNCHANGED <<output_path, run_button, worker, config, return_code, dialog,
                   plot_refresh, plots, disk, runs>>
    /\ EngineUnchanged
    /\ GuiUnchanged

NextGui ==
    \/ select_output
    \/ output_entry
    \/ run_analysis_thread
    \/ Popen
    \/ EngineWrites
    \/ EngineExits
    \/ StreamRaises
    \/ ProcessWait
    \/ ShowResult
    \/ ScheduleRefresh
    \/ ResultRaises
    \/ FinallyEnable
    \/ update_visuals
    \/ OrphanWrites
    \/ OrphanExits

SpecGui == InitGui /\ [][NextGui]_vars

\* Worker threads between thread.start() and the end of execute_script.
ActiveWorkers == {w \in DOMAIN worker : worker[w] /= "idle"}

\* Engine processes started by the window that have not ended.
EnginesRunning == (IF pc = "running" THEN 1 ELSE 0) + BagCardinality(orphans)

\* No two engine processes of the window run at the same time.
OneEngineAtMost == EnginesRunning <= 1

\* While a worker is active the button is disabled, so there is one worker at
\* most.
ButtonGuardsWorker ==
    /\ Cardinality(ActiveWorkers) <= 1
    /\ ActiveWorkers /= {} => run_button = "disabled"

\* When no worker is active the button is enabled.
ButtonEnabledAfterRun == ActiveWorkers = {} => run_button = "normal"

\* C13: at most one engine subprocess launched by the window runs at any
\* time; the Run button is disabled from the click that starts a run until the
\* worker of that run has finished, and enabled again after every run.
C13_SingleEngine ==
    /\ OneEngineAtMost
    /\ ButtonGuardsWorker
    /\ ButtonEnabledAfterRun


\* The input errors after which run_analysis prints FATAL ERROR and returns.
FatalInputErrors == {"input_not_found", "column_not_found", "matrix_not_found"}

\* The worker has shown the box of its run, or is past it.
PastSuccessBox(w) == worker[w] \in {"success_box", "scheduled"}

\* C14: the window shows "Analysis completed successfully!" and schedules the
\* plot refresh only after an engine run that wrote its outputs; after an
\* engine run that stopped on a fatal input error it shows the error message
\* and schedules no plot refresh.
C14_SuccessOnlyAfterOutputs ==
    \A w \in DOMAIN worker :
        /\ PastSuccessBox(w) => (status = "complete" /\ written = Outputs)
        /\ (status = "returned" /\ error \in FatalInputErrors) =>
              (~PastSuccessBox(w) /\ (worker[w] = "waited" => return_code /= 0))

====
